---- MODULE Spec2Model ----
(***************************************************************************)
(* goatscrape: the Spider crawl loop (crawl.go) driving the BasicLinkStore *)
(* (plugins link store).  URL strings are modelled as sequences of tokens  *)
(* so that parsing, host comparison and unanchored pattern matching are    *)
(* computed, not assumed.                                                  *)
(***************************************************************************)
EXTENDS Integers, Sequences, FiniteSets, TLC

VARIABLES
    \* Spider configuration (crawl.go Spider struct)
    Name, StartingURLs, AllowedDomains, DisallowedPages, MaxPages,
    MaxConcurrentRequests, Parse, PreRequestMiddleware, Getter, Links,
    \* Spider private fields
    hasAllowedDomains, hasMaxPages, hasPreRequestMiddleware, hasParse, hasDisallowed,
    totalSpidered, wg,
    \* BasicLinkStore
    toCrawl, crawled,
    \* control state of Start/crawlLoop, its locals, and the getPage goroutines
    pc, temp, idx, tasks,
    \* the last call a client made directly on the link store
    lastOp

cfgVars == <<Name, StartingURLs, AllowedDomains, DisallowedPages, MaxPages,
             Parse, PreRequestMiddleware, Getter, Links>>
flagVars == <<hasAllowedDomains, hasMaxPages, hasPreRequestMiddleware, hasParse,
              hasDisallowed>>
vars == <<Name, StartingURLs, AllowedDomains, DisallowedPages, MaxPages,
          MaxConcurrentRequests, Parse, PreRequestMiddleware, Getter, Links,
          hasAllowedDomains, hasMaxPages, hasPreRequestMiddleware, hasParse,
          hasDisallowed,
          totalSpidered, wg, toCrawl, crawled, pc, temp, idx, tasks, lastOp>>

----------------------------------------------------------------------------
\* Bounds of the model

\* MaxPages ranges over -1..MaxPagesBound
MaxPagesBound == 2
\* MaxConcurrentRequests ranges over 0..MaxConcBound
MaxConcBound == 2
\* GetLinks is called directly with amounts 0..MaxAmount
MaxAmount == 3
\* AddPreRequestMiddleware registers at most MaxHooks functions in all
MaxHooks == 2

----------------------------------------------------------------------------
\* URL strings

UrlA == <<"http:", "//x", "/a">>
UrlB == <<"http:", "//x", "/b">>
UrlY == <<"http:", "//other", "/y">>
UrlRel == <<"/b">>
UrlAbout == <<"http:", "//x", "/team", "/about", "-us">>
UrlBad == <<"http:", "//x", "%zz">>

URLs == {UrlA, UrlB, UrlY, UrlRel, UrlAbout, UrlBad}
StorePool == {UrlA, UrlB, UrlY, UrlRel}

\* the values StartingURLs is drawn from
SeedChoices ==
    {<<>>, <<UrlA>>, <<UrlAbout>>, <<UrlA, UrlA>>, <<UrlA, UrlB>>, <<UrlY, UrlA, UrlB>>}

\* the link lists a Parse call is drawn from
ParseChoices ==
    {<<>>, <<UrlB>>, <<UrlAbout, UrlB>>, <<UrlY, UrlA>>, <<UrlRel, UrlBad>>}

DomainChoices == {<<>>, <<"x">>, <<"x", "other">>}
PatternChoices == {<<>>, << <<"/about">> >>}

InList(list, x) == \E i \in DOMAIN list : list[i] = x
Range(list) == {list[i] : i \in DOMAIN list}
Count(list, x) == Cardinality({i \in DOMAIN list : list[i] = x})

----------------------------------------------------------------------------
\* net/url as used by verifyURL: url.Parse, URL.IsAbs, URL.Host

HostOf(tok) ==
    CASE tok = "//x" -> "x"
      [] tok = "//other" -> "other"
      [] OTHER -> ""

urlParse(uri) ==
    IF \E i \in DOMAIN uri : uri[i] = "%zz"
    THEN [err |-> TRUE, Scheme |-> "", Host |-> ""]
    ELSE LET hasScheme == Len(uri) >= 1 /\ uri[1] = "http:"
             rest == IF hasScheme THEN Tail(uri) ELSE uri
         IN [err |-> FALSE,
             Scheme |-> IF hasScheme THEN "http" ELSE "",
             Host |-> IF Len(rest) >= 1 THEN HostOf(rest[1]) ELSE ""]

IsAbs(u) == u.Scheme # ""

\* a match of the whole string only
FindsMatchWhole(r, uri) == r = uri

\* regexp.FindAllString(uri, 1) finds a match anywhere in uri
FindsMatch(r, uri) ==
    \E i \in 0..(Len(uri) - Len(r)) : SubSeq(uri, i + 1, i + Len(r)) = r

----------------------------------------------------------------------------
\* Spider.verifyURL and Spider.isPageDisallowed: "nil" or the kind of error

\* verifyURL without the loop over AllowedDomains
verifyURLNoDomain(uri) ==
    LET u == urlParse(uri)
    IN IF u.err THEN "parse"
       ELSE IF ~IsAbs(u) THEN "notabsolute"
       ELSE "nil"

verifyURL(uri) ==
    LET u == urlParse(uri)
        shouldContinue == \E i \in DOMAIN AllowedDomains : AllowedDomains[i] = u.Host
    IN IF u.err THEN "parse"
       ELSE IF ~IsAbs(u) THEN "notabsolute"
       ELSE IF ~shouldContinue THEN "notallowed"
       ELSE "nil"

\* isPageDisallowed that never returns its error
isPageDisallowedNever(uri) == "nil"

isPageDisallowed(uri) ==
    IF ~hasDisallowed THEN "nil"
    ELSE IF \E i \in DOMAIN DisallowedPages : FindsMatch(DisallowedPages[i], uri)
         THEN "disallowed"
         ELSE "nil"

----------------------------------------------------------------------------
\* BasicLinkStore: each method runs under the store's mutex

RECURSIVE GetLinksLoop(_, _, _, _)
GetLinksLoop(list, amount, counter, links) ==
    IF list = <<>> THEN links
    ELSE IF counter > amount THEN links
    ELSE GetLinksLoop(Tail(list), amount, counter + 1, Append(links, Head(list)))

GetLinks(tc, amount) == GetLinksLoop(tc, amount, 0, <<>>)

\* AddToCrawl that appends only to an empty toCrawl list
AddToCrawlOnlyWhenEmpty(tc, cr, link) ==
    IF tc # <<>> THEN tc
    ELSE IF InList(cr, link) THEN tc
    ELSE Append(tc, link)

\* AddToCrawl without the scan of the crawled list
AddToCrawlSkipCrawled(tc, cr, link) ==
    IF InList(tc, link) THEN tc ELSE Append(tc, link)

\* AddToCrawl without the scan of the toCrawl list
AddToCrawlSkipPending(tc, cr, link) ==
    IF InList(cr, link) THEN tc ELSE Append(tc, link)

AddToCrawl(tc, cr, link) ==
    IF InList(tc, link) THEN tc
    ELSE IF InList(cr, link) THEN tc
    ELSE Append(tc, link)

\* The range loop of MoveToCrawled walks the n elements of the backing array
\* the slice had on entry, while the append inside it shifts that array left
\* and shortens b.toCrawl (length len).  b.toCrawl[i+1:] panics when the
\* index is past the shortened slice.
RECURSIVE MoveLoop(_, _, _, _, _, _)
MoveLoop(arr, n, len, i, link, canContinue) ==
    IF i > n
    THEN [toCrawl |-> SubSeq(arr, 1, len), canContinue |-> canContinue, panic |-> FALSE]
    ELSE IF arr[i] = link
         THEN IF i > len
              THEN [toCrawl |-> SubSeq(arr, 1, len), canContinue |-> canContinue,
                    panic |-> TRUE]
              ELSE MoveLoop([k \in 1..n |-> IF k >= i /\ k < len THEN arr[k + 1] ELSE arr[k]],
                            n, len - 1, i + 1, link, TRUE)
         ELSE MoveLoop(arr, n, len, i + 1, link, canContinue)

\* MoveToCrawled that deletes by overwriting the element with the last one
MoveToCrawledSwapDelete(tc, cr, link) ==
    IF ~InList(tc, link) THEN [toCrawl |-> tc, crawled |-> cr, panic |-> FALSE]
    ELSE LET i == CHOOSE k \in DOMAIN tc : tc[k] = link
             swapped == [tc EXCEPT ![i] = tc[Len(tc)]]
         IN [toCrawl |-> SubSeq(swapped, 1, Len(tc) - 1),
             crawled |-> Append(cr, link),
             panic |-> FALSE]

\* MoveToCrawled that drops the result of the deleting append
MoveToCrawledNoDelete(tc, cr, link) ==
    LET r == MoveLoop(tc, Len(tc), Len(tc), 1, link, FALSE)
    IN [toCrawl |-> tc,
        crawled |-> IF r.canContinue /\ ~r.panic THEN Append(cr, link) ELSE cr,
        panic |-> r.panic]

\* MoveToCrawled that never sets canContinue
MoveToCrawledNoAppend(tc, cr, link) ==
    LET r == MoveLoop(tc, Len(tc), Len(tc), 1, link, FALSE)
    IN [toCrawl |-> r.toCrawl, crawled |-> cr, panic |-> r.panic]

\* MoveToCrawled without the canContinue guard on the append to crawled
MoveToCrawledAlwaysAppend(tc, cr, link) ==
    LET r == MoveLoop(tc, Len(tc), Len(tc), 1, link, FALSE)
    IN [toCrawl |-> r.toCrawl,
        crawled |-> IF ~r.panic THEN Append(cr, link) ELSE cr,
        panic |-> r.panic]

MoveToCrawled(tc, cr, link) ==
    LET r == MoveLoop(tc, Len(tc), Len(tc), 1, link, FALSE)
    IN [toCrawl |-> r.toCrawl,
        crawled |-> IF r.canContinue /\ ~r.panic THEN Append(cr, link) ELSE cr,
        panic |-> r.panic]

\* MoreToCrawl with 1 for 0
MoreToCrawlMany(tc) == Len(tc) > 1

\* MoreToCrawl with >= for >
MoreToCrawlAlways(tc) == Len(tc) >= 0

MoreToCrawl(tc) == Len(tc) > 0

----------------------------------------------------------------------------
\* sync.WaitGroup as crawlLoop and getPage use it: the counter

\* s.wg.Add(1) for s.wg.Add(len(temp))
wgAddOne(w, n) == w + 1

wgAdd(w, n) == w + n

wgDone(w) == w - 1

\* Wait returns when the counter is zero
wgWait(w) == w = 0

----------------------------------------------------------------------------
\* PreRequestFunc values and Spider.processRequestMiddleware.  A request is
\* modelled by the sequence of mutations made to it since http.NewRequest;
\* a PreRequestFunc mutates the request in place and returns nothing.

Hooks == {"RandomiseUserAgent", "SetReferer"}

\* the argument lists of a call of AddPreRequestMiddleware
HookArgs == {<<>>, <<"RandomiseUserAgent">>, <<"SetReferer">>,
             <<"SetReferer", "RandomiseUserAgent">>}

\* http.NewRequest("GET", uri, nil)
NewRequest == <<>>

\* m(req)
ApplyHook(m, req) == Append(req, m)

RECURSIVE MiddlewareLoop(_, _)
MiddlewareLoop(ms, req) ==
    IF ms = <<>> THEN req
    ELSE MiddlewareLoop(Tail(ms), ApplyHook(Head(ms), req))

\* processRequestMiddleware that stops after the first function
processRequestMiddlewareFirst(req) ==
    IF ~hasPreRequestMiddleware THEN req
    ELSE IF PreRequestMiddleware = <<>> THEN req
    ELSE ApplyHook(Head(PreRequestMiddleware), req)

processRequestMiddleware(req) ==
    IF ~hasPreRequestMiddleware THEN req
    ELSE MiddlewareLoop(PreRequestMiddleware, req)

----------------------------------------------------------------------------
\* Spider.validateSettings, loadStartingURLS

\* validateSettings without the check of the getter
validateSettingsNoGetter ==
    IF Name = "" THEN "Crawls must have a name."
    ELSE IF Len(StartingURLs) = 0 THEN "Crawl must have starting URLs."
    ELSE IF Links = "nil" THEN "Spider must have a link store."
    ELSE "nil"

validateSettings ==
    IF Name = "" THEN "Crawls must have a name."
    ELSE IF Len(StartingURLs) = 0 THEN "Crawl must have starting URLs."
    ELSE IF Links = "nil" THEN "Spider must have a link store."
    ELSE IF Getter = "nil" THEN "Spider must have a getter."
    ELSE "nil"

RECURSIVE loadStartingURLS(_, _, _)
loadStartingURLS(tc, cr, links) ==
    IF links = <<>> THEN tc
    ELSE loadStartingURLS(AddToCrawl(tc, cr, Head(links)), cr, Tail(links))

NoOp == [op |-> "none", link |-> <<>>, amount |-> 0, links |-> <<>>, more |-> FALSE]

Init ==
    /\ Name \in {"", "job"}
    /\ StartingURLs \in SeedChoices
    /\ AllowedDomains \in DomainChoices
    /\ DisallowedPages \in PatternChoices
    /\ MaxPages \in (-1)..MaxPagesBound
    /\ MaxConcurrentRequests \in 0..MaxConcBound
    /\ Parse \in {"nil", "func"}
    /\ PreRequestMiddleware = <<>>
    /\ Getter \in {"nil", "func"}
    /\ Links \in {"nil", "store"}
    /\ hasAllowedDomains = FALSE
    /\ hasMaxPages = FALSE
    /\ hasPreRequestMiddleware = FALSE
    /\ hasParse = FALSE
    /\ hasDisallowed = FALSE
    /\ totalSpidered = 0
    /\ wg = 0
    /\ toCrawl = <<>>
    /\ crawled = <<>>
    /\ pc = "idle"
    /\ temp = <<>>
    /\ idx = 0
    /\ tasks = <<>>
    /\ lastOp = NoOp

\* Spider.Start up to the call of crawlLoop
Start ==
    /\ pc = "idle"
    /\ IF validateSettings # "nil"
       THEN /\ pc' = "fatal"
            /\ UNCHANGED <<flagVars, MaxConcurrentRequests, totalSpidered, toCrawl>>
       ELSE /\ hasDisallowed' = (Len(DisallowedPages) > 0)
            /\ hasParse' = (Parse # "nil")
            /\ hasPreRequestMiddleware' = (Len(PreRequestMiddleware) > 0)
            /\ hasMaxPages' = ~(MaxPages <= 0)
            /\ hasAllowedDomains' = ~(Len(AllowedDomains) = 0)
            /\ MaxConcurrentRequests' =
                   IF MaxConcurrentRequests <= 0 THEN 1 ELSE MaxConcurrentRequests
            /\ totalSpidered' = 0
            /\ toCrawl' = loadStartingURLS(toCrawl, crawled, StartingURLs)
            /\ pc' = "loop"
    /\ UNCHANGED <<cfgVars, wg, crawled, temp, idx, tasks, lastOp>>

----------------------------------------------------------------------------
\* Spider.crawlLoop

\* amountToGet without the delta branch
amountToGetNoDelta == MaxConcurrentRequests

\* the local amountToGet of crawlLoop
amountToGet ==
    IF hasMaxPages /\ (totalSpidered + MaxConcurrentRequests) >= MaxPages
    THEN MaxPages - totalSpidered
    ELSE MaxConcurrentRequests

\* the loop condition, the budget check and the draw of the next batch
CrawlLoopHead ==
    /\ pc = "loop"
    /\ IF ~MoreToCrawl(toCrawl)
       THEN pc' = "completed" /\ UNCHANGED <<temp, wg, idx>>
       ELSE IF hasMaxPages /\ totalSpidered >= MaxPages
       THEN pc' = "completed" /\ UNCHANGED <<temp, wg, idx>>
       ELSE LET links == GetLinks(toCrawl, amountToGet)
            IN /\ temp' = links
               /\ wg' = wgAdd(wg, Len(links))
               /\ idx' = 1
               /\ pc' = IF Len(links) = 0 THEN "wait" ELSE "dispatch"
    /\ UNCHANGED <<cfgVars, flagVars, MaxConcurrentRequests, totalSpidered,
                   toCrawl, crawled, tasks, lastOp>>

NewTask(uri) ==
    [uri |-> uri, pc |-> "start", err |-> "nil", req |-> NewRequest,
     links |-> <<>>, idx |-> 0]

\* s.Links.MoveToCrawled(uri); go s.getPage(uri)
DispatchSpawn ==
    /\ pc = "dispatch"
    /\ LET r == MoveToCrawled(toCrawl, crawled, temp[idx])
       IN /\ toCrawl' = r.toCrawl
          /\ crawled' = r.crawled
          /\ IF r.panic
             THEN pc' = "panic" /\ tasks' = tasks
             ELSE pc' = "count" /\ tasks' = Append(tasks, NewTask(temp[idx]))
    /\ UNCHANGED <<cfgVars, flagVars, MaxConcurrentRequests, totalSpidered, wg,
                   temp, idx, lastOp>>

\* s.totalSpidered++ and the step of the range loop
DispatchCount ==
    /\ pc = "count"
    /\ totalSpidered' = totalSpidered + 1
    /\ idx' = idx + 1
    /\ pc' = IF idx + 1 > Len(temp) THEN "wait" ELSE "dispatch"
    /\ UNCHANGED <<cfgVars, flagVars, MaxConcurrentRequests, wg, toCrawl, crawled,
                   temp, tasks, lastOp>>

\* s.wg.Wait()
Wait ==
    /\ pc = "wait"
    /\ wgWait(wg)
    /\ pc' = "loop"
    /\ UNCHANGED <<cfgVars, flagVars, MaxConcurrentRequests, totalSpidered, wg,
                   toCrawl, crawled, temp, idx, tasks, lastOp>>

----------------------------------------------------------------------------
\* Spider.getPage, one goroutine per dispatched URL

SetTask(t, rec) == [tasks EXCEPT ![t] = rec]

\* verifyURL(uri) fails: early return
GetPageRejected(t) ==
    /\ tasks[t].pc = "start"
    /\ verifyURL(tasks[t].uri) # "nil"
    /\ tasks' = SetTask(t, [tasks[t] EXCEPT !.pc = "defer", !.err = verifyURL(tasks[t].uri)])
    /\ UNCHANGED <<cfgVars, flagVars, MaxConcurrentRequests, totalSpidered, wg,
                   toCrawl, crawled, pc, temp, idx, lastOp>>

\* the request is built and passed through the middleware; s.Getter(req)
\* returns an error
GetPageGetterError(t) ==
    /\ tasks[t].pc = "start"
    /\ verifyURL(tasks[t].uri) = "nil"
    /\ tasks' = SetTask(t, [tasks[t] EXCEPT
                               !.pc = "defer", !.err = "getter",
                               !.req = processRequestMiddleware(NewRequest)])
    /\ UNCHANGED <<cfgVars, flagVars, MaxConcurrentRequests, totalSpidered, wg,
                   toCrawl, crawled, pc, temp, idx, lastOp>>

\* the request is built and passed through the middleware; s.Getter(req)
\* returns a response; s.Parse(resp) when it is set
GetPageFetched(t) ==
    /\ tasks[t].pc = "start"
    /\ verifyURL(tasks[t].uri) = "nil"
    /\ \E links \in ParseChoices :
          /\ ~hasParse => links = <<>>
          /\ tasks' = SetTask(t, [tasks[t] EXCEPT
                                     !.pc = IF links = <<>> THEN "defer" ELSE "links",
                                     !.req = processRequestMiddleware(NewRequest),
                                     !.links = links,
                                     !.idx = IF links = <<>> THEN 0 ELSE 1])
    /\ UNCHANGED <<cfgVars, flagVars, MaxConcurrentRequests, totalSpidered, wg,
                   toCrawl, crawled, pc, temp, idx, lastOp>>

\* one iteration of the loop over the parsed links
GetPageLink(t) ==
    /\ tasks[t].pc = "links"
    /\ LET l == tasks[t].links[tasks[t].idx]
           err1 == verifyURL(l)
           err2 == isPageDisallowed(l)
           last == tasks[t].idx = Len(tasks[t].links)
       IN /\ toCrawl' = IF err1 # "nil" \/ err2 # "nil"
                        THEN toCrawl
                        ELSE AddToCrawl(toCrawl, crawled, l)
          /\ tasks' = SetTask(t, [tasks[t] EXCEPT
                                     !.pc = IF last THEN "defer" ELSE "links",
                                     !.idx = tasks[t].idx + 1])
    /\ UNCHANGED <<cfgVars, flagVars, MaxConcurrentRequests, totalSpidered, wg,
                   crawled, pc, temp, idx, lastOp>>

RemoveAt(s, t) == [k \in 1..(Len(s) - 1) |-> IF k < t THEN s[k] ELSE s[k + 1]]

\* the deferred s.wg.Done() and the end of the goroutine
GetPageDone(t) ==
    /\ tasks[t].pc = "defer"
    /\ wg' = wgDone(wg)
    /\ tasks' = RemoveAt(tasks, t)
    /\ UNCHANGED <<cfgVars, flagVars, MaxConcurrentRequests, totalSpidered,
                   toCrawl, crawled, pc, temp, idx, lastOp>>

GetPage ==
    \/ \E t \in DOMAIN tasks : GetPageRejected(t)
    \/ \E t \in DOMAIN tasks : GetPageGetterError(t)
    \/ \E t \in DOMAIN tasks : GetPageFetched(t)
    \/ \E t \in DOMAIN tasks : GetPageLink(t)
    \/ \E t \in DOMAIN tasks : GetPageDone(t)

Scheduler == Start \/ CrawlLoopHead \/ DispatchSpawn \/ DispatchCount \/ Wait

Next == Scheduler \/ GetPage

Spec == Init /\ [][Next]_vars

\* the goroutine scheduler runs every runnable goroutine eventually
FairSpec == Spec /\ WF_vars(Scheduler) /\ WF_vars(GetPage)

----------------------------------------------------------------------------
\* The crawl in the environment of Scenario A: a Parse function is set, every
\* Getter call succeeds and every Parse call returns the single link
\* http://x/b

InitScenario == Init /\ Parse = "func"

ScenarioFetched ==
    \E t \in DOMAIN tasks : GetPageFetched(t) /\ tasks'[t].links = <<UrlB>>

NextScenario ==
    \/ Scheduler
    \/ \E t \in DOMAIN tasks : GetPageRejected(t)
    \/ ScenarioFetched
    \/ \E t \in DOMAIN tasks : GetPageLink(t)
    \/ \E t \in DOMAIN tasks : GetPageDone(t)

ScenarioSpec == InitScenario /\ [][NextScenario]_vars

----------------------------------------------------------------------------
\* A client that registers middleware before it starts a spider whose other
\* settings are valid

InitMiddleware ==
    /\ Init
    /\ Name = "job" /\ Getter = "func" /\ Links = "store"
    /\ AllowedDomains = <<"x">>
    /\ DisallowedPages = <<>>
    /\ StartingURLs \in {<<UrlA>>, <<UrlA, UrlB>>, <<UrlY, UrlA, UrlB>>}

AddPreRequestMiddleware(funcs) ==
    /\ pc = "idle"
    /\ Len(PreRequestMiddleware) + Len(funcs) <= MaxHooks
    /\ hasPreRequestMiddleware' = TRUE
    /\ PreRequestMiddleware' = PreRequestMiddleware \o funcs
    /\ UNCHANGED <<Name, StartingURLs, AllowedDomains, DisallowedPages, MaxPages,
                   MaxConcurrentRequests, Parse, Getter, Links,
                   hasAllowedDomains, hasMaxPages, hasParse, hasDisallowed,
                   totalSpidered, wg, toCrawl, crawled, pc, temp, idx, tasks, lastOp>>

NextMiddleware ==
    \/ \E funcs \in HookArgs : AddPreRequestMiddleware(funcs)
    \/ Scheduler
    \/ GetPage

MiddlewareSpec == InitMiddleware /\ [][NextMiddleware]_vars

----------------------------------------------------------------------------
\* The link store driven directly by a client: any sequence of calls of its
\* four methods

InitStore ==
    /\ Name = "job"
    /\ StartingURLs = <<>>
    /\ AllowedDomains = <<>>
    /\ DisallowedPages = <<>>
    /\ MaxPages = 0
    /\ MaxConcurrentRequests = 1
    /\ Parse = "nil"
    /\ PreRequestMiddleware = <<>>
    /\ Getter = "nil"
    /\ Links = "store"
    /\ hasAllowedDomains = FALSE
    /\ hasMaxPages = FALSE
    /\ hasPreRequestMiddleware = FALSE
    /\ hasParse = FALSE
    /\ hasDisallowed = FALSE
    /\ totalSpidered = 0
    /\ wg = 0
    /\ toCrawl = <<>>
    /\ crawled = <<>>
    /\ pc = "client"
    /\ temp = <<>>
    /\ idx = 0
    /\ tasks = <<>>
    /\ lastOp = NoOp

spiderVars == <<cfgVars, flagVars, MaxConcurrentRequests, totalSpidered, wg,
                temp, idx, tasks>>

CallAddToCrawl(link) ==
    /\ pc = "client"
    /\ toCrawl' = AddToCrawl(toCrawl, crawled, link)
    /\ lastOp' = [NoOp EXCEPT !.op = "AddToCrawl", !.link = link]
    /\ UNCHANGED <<spiderVars, crawled, pc>>

CallMoveToCrawled(link) ==
    /\ pc = "client"
    /\ LET r == MoveToCrawled(toCrawl, crawled, link)
       IN /\ toCrawl' = r.toCrawl
          /\ crawled' = r.crawled
          /\ pc' = IF r.panic THEN "panic" ELSE pc
    /\ lastOp' = [NoOp EXCEPT !.op = "MoveToCrawled", !.link = link]
    /\ UNCHANGED spiderVars

CallGetLinks(amount) ==
    /\ pc = "client"
    /\ lastOp' = [NoOp EXCEPT !.op = "GetLinks", !.amount = amount,
                              !.links = GetLinks(toCrawl, amount)]
    /\ UNCHANGED <<spiderVars, toCrawl, crawled, pc>>

CallMoreToCrawl ==
    /\ pc = "client"
    /\ lastOp' = [NoOp EXCEPT !.op = "MoreToCrawl", !.more = MoreToCrawl(toCrawl)]
    /\ UNCHANGED <<spiderVars, toCrawl, crawled, pc>>

NextStore ==
    \/ \E link \in StorePool : CallAddToCrawl(link)
    \/ \E link \in StorePool : CallMoveToCrawled(link)
    \/ \E amount \in 0..MaxAmount : CallGetLinks(amount)
    \/ CallMoreToCrawl

StoreSpec == InitStore /\ [][NextStore]_vars

----------------------------------------------------------------------------
\* The link store in either use: driven by the spider or directly by a client

InitFrontier == Init \/ InitStore

NextFrontier == Next \/ NextStore

FrontierSpec == InitFrontier /\ [][NextFrontier]_vars

----------------------------------------------------------------------------
\* Properties

Min(a, b) == IF a <= b THEN a ELSE b

\* the links of task t that passed both checks and were handed to AddToCrawl
Added(t) ==
    {tasks[t].links[i] : i \in {j \in DOMAIN tasks[t].links :
          /\ j < tasks[t].idx
          /\ verifyURL(tasks[t].links[j]) = "nil"
          /\ isPageDisallowed(tasks[t].links[j]) = "nil"}}

\* C1: with MaxPages = N > 0 the number of dispatched URLs (totalSpidered)
\* never exceeds N.
C1_BudgetBound == MaxPages > 0 => totalSpidered <= MaxPages

\* C2: once the settings are validated, the number of getPage goroutines
\* spawned and not yet finished is at most MaxConcurrentRequests.
C2_ConcurrencyCap ==
    pc \notin {"idle", "fatal"} => Len(tasks) <= MaxConcurrentRequests

\* C3: no URL is in both the toCrawl list and the crawled list.
C3_SetPartition == Range(toCrawl) \cap Range(crawled) = {}

\* a task has called AddToCrawl on a URL that is already crawled while the
\* scheduler is still moving the URLs of the batch
C3_Witness ==
    /\ pc = "dispatch"
    /\ toCrawl # <<>>
    /\ \E t \in DOMAIN tasks : \E u \in Added(t) : InList(crawled, u)

\* C4: AddToCrawl(u) appends u at the tail of toCrawl when u is in neither
\* list and changes nothing else; otherwise it leaves both lists unchanged;
\* a repeated call changes nothing.
C4_AddIff ==
    [][lastOp'.op = "AddToCrawl" =>
         LET u == lastOp'.link
         IN /\ IF u \notin (Range(toCrawl) \cup Range(crawled))
               THEN toCrawl' = Append(toCrawl, u)
               ELSE toCrawl' = toCrawl
            /\ crawled' = crawled
            /\ AddToCrawl(toCrawl', crawled', u) = toCrawl']_vars

\* AddToCrawl was called on a URL of the crawled list, next to other pending URLs
C4_Witness ==
    /\ lastOp.op = "AddToCrawl"
    /\ InList(crawled, lastOp.link)
    /\ Len(toCrawl) >= 2

\* C5: when two tasks of a round have both handed the same URL to AddToCrawl
\* and the URL has not been crawled, it is in toCrawl exactly once.
C5_ConcurrentAdd ==
    \A t1, t2 \in DOMAIN tasks :
        t1 # t2 =>
            \A u \in Added(t1) \cap Added(t2) :
                ~InList(crawled, u) => Count(toCrawl, u) = 1

\* two tasks of the first round have both added a URL that was not a seed
C5_Witness ==
    /\ pc = "wait"
    /\ Len(crawled) = Len(temp)
    /\ \E t1, t2 \in DOMAIN tasks :
          /\ t1 # t2
          /\ \E u \in Added(t1) \cap Added(t2) :
                /\ ~InList(StartingURLs, u)
                /\ Count(toCrawl, u) = 1

\* C6: a URL of the crawled list stays in it and never re-enters toCrawl,
\* whatever call is made on the store.
C6_PermanentDedup ==
    [][\A u \in Range(crawled) :
          /\ u \in Range(crawled')
          /\ u \notin Range(toCrawl')]_vars

\* AddToCrawl and MoveToCrawled have both been tried on crawled URLs
C6_Witness ==
    /\ lastOp.op \in {"AddToCrawl", "MoveToCrawled"}
    /\ Len(crawled) >= 2
    /\ crawled[1] = lastOp.link

\* C7: a crawl that has entered crawlLoop reaches its return.
C7_Termination == (pc = "loop") ~> (pc = "completed")

\* an unbounded crawl over a link graph with a cycle has completed
C7_Witness ==
    /\ pc = "completed"
    /\ MaxPages <= 0
    /\ Len(crawled) >= 3
    /\ toCrawl = <<>>

\* C8: GetLinks(n) returns the first min(n, |toCrawl|) URLs of toCrawl, never
\* more than n, and leaves both lists unchanged.
C8_PeekBatch ==
    [][lastOp'.op = "GetLinks" =>
         /\ lastOp'.links = SubSeq(toCrawl, 1, Min(lastOp'.amount, Len(toCrawl)))
         /\ Len(lastOp'.links) <= lastOp'.amount
         /\ toCrawl' = toCrawl
         /\ crawled' = crawled]_vars

\* C9 as stated: after MoveToCrawled(u), u is not in toCrawl and is in
\* crawled, for every u; a second call changes nothing.
C9_MarkVisited ==
    [][lastOp'.op = "MoveToCrawled" =>
         LET u == lastOp'.link
             again == MoveToCrawled(toCrawl', crawled', u)
         IN /\ u \notin Range(toCrawl')
            /\ u \in Range(crawled')
            /\ again.toCrawl = toCrawl' /\ again.crawled = crawled']_vars

\* C9 amended: after MoveToCrawled(u), u is not in toCrawl; u is in crawled
\* exactly when it was in toCrawl or in crawled before the call, and a u in
\* neither list leaves both lists unchanged; a second call changes nothing.
C9_MarkVisitedAmended ==
    [][lastOp'.op = "MoveToCrawled" =>
         LET u == lastOp'.link
             again == MoveToCrawled(toCrawl', crawled', u)
         IN /\ u \notin Range(toCrawl')
            /\ u \in Range(crawled') <=> u \in (Range(toCrawl) \cup Range(crawled))
            /\ u \notin (Range(toCrawl) \cup Range(crawled)) =>
                   toCrawl' = toCrawl /\ crawled' = crawled
            /\ again.toCrawl = toCrawl' /\ again.crawled = crawled'
            /\ ~again.panic]_vars

\* MoveToCrawled was called on a URL that was in neither list
C9_Witness ==
    /\ lastOp.op = "MoveToCrawled"
    /\ ~InList(toCrawl, lastOp.link)
    /\ ~InList(crawled, lastOp.link)
    /\ toCrawl # <<>>

\* C10: verifyURL, as getPage applies it to its URL, accepts every URL that
\* parses and is absolute when AllowedDomains is empty, and exactly the
\* absolute URLs whose host is listed when AllowedDomains is not empty.
C10_AllowAll ==
    \A t \in DOMAIN tasks :
        tasks[t].pc # "start" =>
            LET u == urlParse(tasks[t].uri)
                accepted == tasks[t].err \in {"nil", "getter"}
            IN IF Len(AllowedDomains) = 0
               THEN accepted <=> (~u.err /\ IsAbs(u))
               ELSE accepted <=> (~u.err /\ IsAbs(u) /\ u.Host \in Range(AllowedDomains))

\* the Getter has been invoked by task t
GetterInvoked(t) == tasks[t].pc # "start" /\ tasks[t].err \in {"nil", "getter"}

\* some DisallowedPages pattern occurs somewhere in uri
MatchesAnywhere(uri) ==
    \E k \in DOMAIN DisallowedPages : \E i, j \in DOMAIN uri :
        /\ i <= j
        /\ [m \in 1..(j - i + 1) |-> uri[i + m - 1]] = DisallowedPages[k]

\* uri parses, is absolute and, when AllowedDomains is not empty, its host is listed
Fetchable(uri) ==
    LET u == urlParse(uri)
    IN /\ ~u.err
       /\ IsAbs(u)
       /\ Len(AllowedDomains) > 0 => u.Host \in Range(AllowedDomains)

\* uri parses, is absolute and its host is listed in AllowedDomains
HostListed(uri) ==
    LET u == urlParse(uri)
    IN ~u.err /\ IsAbs(u) /\ u.Host \in Range(AllowedDomains)

InStore(u) == InList(toCrawl, u) \/ InList(crawled, u)

\* C11: a URL that is not a starting URL and that has a host outside a
\* non-empty AllowedDomains, is not absolute, or contains a DisallowedPages
\* pattern anywhere is never in toCrawl and never in crawled.
C11_ParsedLinkAdmission ==
    \A u \in Range(toCrawl) \cup Range(crawled) :
        ~InList(StartingURLs, u) =>
            LET p == urlParse(u)
            IN /\ ~(Len(AllowedDomains) > 0 /\ p.Host \notin Range(AllowedDomains))
               /\ IsAbs(p)
               /\ ~MatchesAnywhere(u)

\* a task has passed over the parsed link http://x/team/about-us, which is on
\* an allowed host and contains the pattern /about, and it is not in the store
C11_Witness ==
    /\ Len(DisallowedPages) > 0
    /\ HostListed(UrlAbout)
    /\ ~InList(StartingURLs, UrlAbout)
    /\ ~InStore(UrlAbout)
    /\ \E t \in DOMAIN tasks : tasks[t].idx > 1 /\ tasks[t].links[1] = UrlAbout

\* C12 as stated: the Getter is never invoked for a URL that fails the
\* fetchable check or that contains a disallow pattern, starting URLs included.
C12_ChecksBeforeFetch ==
    \A t \in DOMAIN tasks :
        GetterInvoked(t) =>
            Fetchable(tasks[t].uri) /\ ~MatchesAnywhere(tasks[t].uri)

\* C12 amended: the Getter is never invoked for a URL that fails the fetchable
\* check, starting URLs included; only a URL that is not a starting URL is
\* also free of every disallow pattern when it is fetched.
C12_ChecksBeforeFetchAmended ==
    \A t \in DOMAIN tasks :
        GetterInvoked(t) =>
            /\ Fetchable(tasks[t].uri)
            /\ ~InList(StartingURLs, tasks[t].uri) => ~MatchesAnywhere(tasks[t].uri)

\* the Getter has been invoked for a starting URL that contains a disallow pattern
C12_Witness ==
    \E t \in DOMAIN tasks :
        /\ GetterInvoked(t)
        /\ InList(StartingURLs, tasks[t].uri)
        /\ MatchesAnywhere(tasks[t].uri)

\* C13 as stated: every member of toCrawl and of crawled passes the fetchable
\* check and contains no disallow pattern, starting URLs included.
C13_FrontierAdmitted ==
    \A u \in Range(toCrawl) \cup Range(crawled) :
        Fetchable(u) /\ ~MatchesAnywhere(u)

\* C13 amended: every member of toCrawl and of crawled that is not a starting
\* URL passes verifyURL's checks and contains no disallow pattern.
C13_FrontierAdmittedAmended ==
    \A u \in Range(toCrawl) \cup Range(crawled) :
        ~InList(StartingURLs, u) => HostListed(u) /\ ~MatchesAnywhere(u)

\* a parsed link that is not a starting URL is in the store while a starting
\* URL on a host that is not allowed is in the store too
C13_Witness ==
    /\ \E u \in Range(toCrawl) \cup Range(crawled) : ~InList(StartingURLs, u)
    /\ \E u \in Range(toCrawl) \cup Range(crawled) :
          InList(StartingURLs, u) /\ ~HostListed(u)
    /\ Len(AllowedDomains) > 0

\* C14: with an empty Name, an empty StartingURLs, a nil Links or a nil
\* Getter nothing is added to the store, no task is spawned, no URL is
\* dispatched and crawlLoop is never entered.
C14_ConfigFatal ==
    (Name = "" \/ Len(StartingURLs) = 0 \/ Links = "nil" \/ Getter = "nil") =>
        /\ pc \in {"idle", "fatal"}
        /\ toCrawl = <<>> /\ crawled = <<>>
        /\ tasks = <<>> /\ wg = 0
        /\ totalSpidered = 0

\* Start has ended fatally on a nil Getter, all other settings being valid
C14_Witness ==
    /\ pc = "fatal"
    /\ Getter = "nil"
    /\ Name # "" /\ Len(StartingURLs) > 0 /\ Links # "nil"

\* C15: a task whose Getter returned an error has called no Parse and added
\* nothing, and its URL is in crawled and not in toCrawl; when all URLs of a
\* batch are dispatched totalSpidered counts every crawled URL; a URL that is
\* in crawled is never dispatched again; the barrier of the round is released.
C15_FetchError ==
    /\ [](\A t \in DOMAIN tasks :
             tasks[t].err = "getter" =>
                 /\ tasks[t].pc = "defer"
                 /\ tasks[t].links = <<>> /\ tasks[t].idx = 0
                 /\ InList(crawled, tasks[t].uri)
                 /\ ~InList(toCrawl, tasks[t].uri))
    /\ [](pc = "wait" => totalSpidered = Len(crawled))
    /\ [][pc = "dispatch" /\ pc' = "count" => ~InList(crawled, temp[idx])]_vars
    /\ ((\E t \in DOMAIN tasks : tasks[t].err = "getter") ~> (pc = "loop"))

\* the Getter failed for a URL that another task of the round has parsed out
\* of its page and handed to AddToCrawl
C15_Witness ==
    \E t1, t2 \in DOMAIN tasks :
        /\ t1 # t2
        /\ tasks[t1].err = "getter"
        /\ tasks[t1].uri \in Added(t2)

\* C16: with StartingURLs = [a], AllowedDomains = [x], MaxPages = 2 and
\* MaxConcurrentRequests = 1, every fetch succeeding and Parse always
\* returning [b], a is dispatched first and b second, nothing else is
\* dispatched, and the crawl ends with crawled = [a, b], totalSpidered = 2
\* and toCrawl empty or the budget reached.
C16_ScenarioA ==
    (/\ StartingURLs = <<UrlA>>
     /\ AllowedDomains = <<"x">>
     /\ MaxPages = 2
     /\ MaxConcurrentRequests = 1) =>
        /\ crawled \in {<<>>, <<UrlA>>, <<UrlA, UrlB>>}
        /\ totalSpidered <= 2
        /\ pc = "completed" =>
              /\ crawled = <<UrlA, UrlB>>
              /\ totalSpidered = 2
              /\ toCrawl = <<>> \/ totalSpidered >= MaxPages

\* the crawl of Scenario A has completed
C16_Witness ==
    /\ StartingURLs = <<UrlA>>
    /\ AllowedDomains = <<"x">>
    /\ MaxPages = 2
    /\ MaxConcurrentRequests = 1
    /\ pc = "completed"

\* C17: when crawlLoop is at its loop head (about to call MoreToCrawl and
\* GetLinks) or has returned, no getPage goroutine is running; every running
\* goroutine belongs to the batch drawn last.
C17_RoundBarrier ==
    /\ pc \in {"loop", "completed"} => tasks = <<>> /\ wg = 0
    /\ \A t \in DOMAIN tasks : InList(temp, tasks[t].uri)

\* a round of at least two tasks has been joined
C17_Witness ==
    /\ pc = "loop"
    /\ Len(temp) >= 2
    /\ totalSpidered >= 2

\* C18: when crawlLoop has returned, toCrawl is empty or MaxPages > 0 and
\* totalSpidered >= MaxPages, and no task is running; the loop does not
\* return while toCrawl is not empty and budget remains.
C18_Completion ==
    /\ [](pc = "completed" =>
             /\ toCrawl = <<>> \/ (MaxPages > 0 /\ totalSpidered >= MaxPages)
             /\ tasks = <<>>)
    /\ [][(/\ pc = "loop"
           /\ toCrawl # <<>>
           /\ ~(MaxPages > 0 /\ totalSpidered >= MaxPages)) => pc' # "completed"]_vars

\* crawlLoop has returned on the budget with URLs left in toCrawl
C18_Witness ==
    /\ pc = "completed"
    /\ toCrawl # <<>>
    /\ MaxPages > 0

\* C20: the URL of every getPage goroutine, from its spawn on and so when its
\* Getter is invoked, is in crawled and not in toCrawl.
C20_VisitedBeforeFetch ==
    \A t \in DOMAIN tasks :
        InList(crawled, tasks[t].uri) /\ ~InList(toCrawl, tasks[t].uri)

\* the Getter has been invoked for a URL that a task has since handed to
\* AddToCrawl again, next to other pending URLs
C20_Witness ==
    /\ toCrawl # <<>>
    /\ \E t, t2 \in DOMAIN tasks :
          GetterInvoked(t) /\ tasks[t].uri \in Added(t2)

\* C21: when the Getter has been invoked for the URL of a task, totalSpidered
\* has already been incremented for that URL: the URL is among the first
\* totalSpidered entries of crawled (the URLs counted so far).
C21_CountedBeforeFetch ==
    \A t \in DOMAIN tasks :
        GetterInvoked(t) =>
            \E i \in DOMAIN crawled : i <= totalSpidered /\ crawled[i] = tasks[t].uri

\* C22: when the Getter has been invoked with the request of a task, the
\* mutations made to that request are those of the registered functions,
\* each once, in the order of registration, and none when none is
\* registered; a task whose URL passes verifyURL leaves its first step only
\* by invoking the Getter, whatever is registered.
C22_MiddlewarePipeline ==
    /\ [](\A t \in DOMAIN tasks :
             GetterInvoked(t) => tasks[t].req = PreRequestMiddleware)
    /\ [][\A t \in DOMAIN tasks :
             (/\ tasks[t].pc = "start"
              /\ verifyURL(tasks[t].uri) = "nil"
              /\ Len(tasks') = Len(tasks)
              /\ tasks'[t].pc # "start") =>
                 tasks'[t].err \in {"nil", "getter"}]_vars

\* the Getter has been invoked with a request that went through two
\* functions registered by two calls of AddPreRequestMiddleware
C22_Witness ==
    \E t \in DOMAIN tasks :
        /\ GetterInvoked(t)
        /\ tasks[t].req = <<"RandomiseUserAgent", "SetReferer">>

\* the batch size of the claim C23
batchSize ==
    IF MaxPages > 0
    THEN Min(MaxConcurrentRequests, MaxPages - totalSpidered)
    ELSE MaxConcurrentRequests

\* C23: once the settings are validated MaxConcurrentRequests is at least 1;
\* whenever crawlLoop draws a batch, the amount it passes to GetLinks is
\* min(MaxConcurrentRequests, MaxPages - totalSpidered) when MaxPages > 0 and
\* MaxConcurrentRequests otherwise, it is at least 1, and the batch is what
\* GetLinks returns for that amount.
C23_DrawBatchSize ==
    /\ [](pc \notin {"idle", "fatal"} => MaxConcurrentRequests >= 1)
    /\ []((/\ pc = "loop"
           /\ MoreToCrawl(toCrawl)
           /\ ~(hasMaxPages /\ totalSpidered >= MaxPages)) =>
              amountToGet = batchSize /\ amountToGet >= 1)
    /\ [][pc = "loop" /\ pc' \in {"dispatch", "wait"} =>
              temp' = GetLinks(toCrawl, batchSize)]_vars

\* a batch is being drawn with the rest of the budget, which is smaller than
\* MaxConcurrentRequests, from a toCrawl list that holds more
C23_Witness ==
    /\ pc = "loop"
    /\ MaxPages > 0
    /\ totalSpidered < MaxPages
    /\ MaxPages - totalSpidered < MaxConcurrentRequests
    /\ Len(toCrawl) > MaxPages - totalSpidered + 1

\* u stands before v in list
Before(list, u, v) ==
    \E i, j \in DOMAIN list : i < j /\ list[i] = u /\ list[j] = v

IsPrefix(a, b) == Len(a) <= Len(b) /\ SubSeq(b, 1, Len(a)) = a

\* C24: no step changes the relative order of two URLs that are in toCrawl
\* before and after it, also when a client's MoveToCrawled removes a URL
\* between them; in a crawl the URL moved to crawled and dispatched is the
\* head of toCrawl, so that crawled followed by toCrawl, the order in which
\* the URLs were first added, only grows at its end.
C24_FifoOrder ==
    /\ [][\A u, v \in Range(toCrawl) \cap Range(toCrawl') :
             Before(toCrawl, u, v) <=> Before(toCrawl', u, v)]_vars
    /\ [][pc # "client" => IsPrefix(crawled \o toCrawl, crawled' \o toCrawl')]_vars
    /\ [][pc = "dispatch" /\ pc' = "count" =>
             temp[idx] = Head(toCrawl) /\ crawled' = Append(crawled, temp[idx])]_vars

\* a client has moved http://x/b to crawled and two URLs (of the four the
\* client adds) remain in toCrawl
C24_Witness ==
    /\ lastOp.op = "MoveToCrawled"
    /\ lastOp.link = UrlB
    /\ crawled = <<UrlB>>
    /\ Len(toCrawl) = 3

\* C25: each time crawlLoop is at its loop condition totalSpidered equals
\* the length of crawled; crawled never holds a URL twice; every URL that
\* crawlLoop is about to hand to MoveToCrawled is in toCrawl, while tasks of
\* the same round are calling AddToCrawl.
C25_BudgetAccounting ==
    /\ pc \in {"loop", "completed"} => totalSpidered = Len(crawled)
    /\ \A u \in Range(crawled) : Count(crawled, u) = 1
    /\ pc = "dispatch" => InList(toCrawl, temp[idx])

\* crawlLoop is about to move the second URL of a batch and a task of the
\* round has already added a link behind it
C25_Witness ==
    /\ pc = "dispatch"
    /\ idx = 2
    /\ \E t \in DOMAIN tasks : \E u \in Added(t) : InList(toCrawl, u)

\* C26: crawlLoop spawns a getPage goroutine only for a URL that is not yet
\* in crawled and puts the URL there in the same step; crawled is only
\* appended to; the running goroutines have distinct URLs; a goroutine that
\* has passed its Getter call never makes another one.
C26_AtMostOnce ==
    /\ [][pc = "dispatch" /\ pc' = "count" =>
             /\ ~InList(crawled, temp[idx])
             /\ crawled' = Append(crawled, temp[idx])
             /\ tasks' = Append(tasks, NewTask(temp[idx]))]_vars
    /\ [][IsPrefix(crawled, crawled') /\ Len(crawled') <= Len(crawled) + 1]_vars
    /\ [][Len(tasks') > Len(tasks) => pc = "dispatch" /\ pc' = "count"]_vars
    /\ [](\A t1, t2 \in DOMAIN tasks : t1 # t2 => tasks[t1].uri # tasks[t2].uri)
    /\ [][\A t \in DOMAIN tasks :
             tasks[t].pc # "start" /\ Len(tasks') = Len(tasks) =>
                 tasks'[t].pc # "start" /\ tasks'[t].req = tasks[t].req]_vars

\* http://x/a is a starting URL twice, has been dispatched, and the page of
\* another URL has linked to it again
C26_Witness ==
    /\ StartingURLs = <<UrlA, UrlA>>
    /\ InList(crawled, UrlA)
    /\ \E t \in DOMAIN tasks : tasks[t].uri # UrlA /\ UrlA \in Added(t)

\* C27: every link that a task has taken from the links Parse returned for
\* its fetched page and that is fetchable and matches no DisallowedPages
\* pattern is in toCrawl or crawled; a task ends only after it has taken
\* every link of its page; no URL ever leaves the union of toCrawl
\* and crawled; when crawlLoop has returned with MaxPages <= 0, toCrawl is
\* empty, no task is running and every starting URL is in crawled.  So at
\* completion crawled holds every such link of every fetched page.
C27_Completeness ==
    /\ [](\A t \in DOMAIN tasks : \A j \in DOMAIN tasks[t].links :
             (/\ j < tasks[t].idx
              /\ Fetchable(tasks[t].links[j])
              /\ isPageDisallowed(tasks[t].links[j]) = "nil") =>
                 InStore(tasks[t].links[j]))
    /\ [](\A t \in DOMAIN tasks :
             tasks[t].pc = "defer" => \A j \in DOMAIN tasks[t].links : j < tasks[t].idx)
    /\ [][Range(toCrawl) \cup Range(crawled) \subseteq
              Range(toCrawl') \cup Range(crawled')]_vars
    /\ []((pc = "completed" /\ MaxPages <= 0) =>
             /\ toCrawl = <<>>
             /\ tasks = <<>>
             /\ Range(StartingURLs) \subseteq Range(crawled))

\* a crawl without budget has completed from the one starting URL http://x/a
\* and has dispatched the two URLs found through Parse
C27_Witness ==
    /\ pc = "completed"
    /\ MaxPages <= 0
    /\ StartingURLs = <<UrlA>>
    /\ Range(crawled) = {UrlA, UrlB, UrlY}

====
